---- MODULE Spec2Model ----
(***************************************************************************)
(* A model of src/testing_framework.py: TestCase.run's fixture lifecycle,  *)
(* the TestResult aggregator, the TestSuite composite and the TestRunner.  *)
(* A client program makes calls (TestSuite.add_test, TestRunner.run);      *)
(* every call of run executes as a sequence of steps on an explicit call   *)
(* stack, one step per statement of the code.                              *)
(***************************************************************************)
EXTENDS Integers, Sequences, FiniteSets, TLC

\* Bounds of the model.
MaxCalls == 4       \* calls the client program makes (add_test, run)
MaxDepth == 4       \* frames on the call stack before RecursionError

\* The TestSuite objects of the client program.
Suites == {"s1", "s2"}

(***************************************************************************)
(* Runnables: a TestCase instance is its class and bound method name, a    *)
(* TestSuite is referred to by its identity (suites may share children     *)
(* and may contain themselves).                                            *)
(***************************************************************************)
Case(c, n) == [kind |-> "case", cls |-> c, name |-> n]

SuiteRef(s) == [kind |-> "suite", cls |-> "TestSuite", name |-> s]

NoTest == [kind |-> "none", cls |-> "none", name |-> "none"]

(***************************************************************************)
(* Fixture classes.  TestStub and TestSpy are the source's; the others are *)
(* fixtures a client may write: a set_up that raises, a tear_down that     *)
(* raises, a test method that fails an assertion or calls sys.exit().      *)
(* MethodOutcome is what getattr + the call yield: "return", or the type   *)
(* of the exception raised; a name the class lacks raises AttributeError.  *)
(***************************************************************************)
\* getattr that finds a method that returns, whatever the name.
MethodOutcomeAnyName(cls, name) == "return"

MethodOutcome(cls, name) ==
    CASE cls = "TestStub" /\ name = "test_success" -> "return"
      [] cls = "TestStub" /\ name = "test_failure" -> "AssertionError"
      [] cls = "TestStub" /\ name = "test_error" -> "Exception"
      [] cls = "TestSpy" /\ name = "test_method" -> "return"
      [] cls = "RaisingSetUp" /\ name = "test_success" -> "return"
      [] cls = "RaisingTearDown" /\ name = "test_failure" -> "AssertionError"
      [] cls = "UserFixture" /\ name = "test_unequal" -> "AssertionError"
      [] cls = "UserFixture" /\ name = "test_exit" -> "SystemExit"
      [] OTHER -> "AttributeError"

\* The outcome of the set_up hook: TestCase's default and TestSpy's return.
SetUpOutcome(cls) == IF cls = "RaisingSetUp" THEN "Exception" ELSE "return"

\* A tear_down that never raises.
TearDownReturns(cls) == "return"

\* The outcome of the tear_down hook.
TearDownOutcome(cls) == IF cls = "RaisingTearDown" THEN "Exception" ELSE "return"

\* An except clause for AssertionError that never matches (as when
\* `except Exception` comes first).
NeverAssertionError(e) == FALSE

\* `except AssertionError`
IsAssertionError(e) == e = "AssertionError"

\* An except clause for Exception that never matches (as when it is left out).
NeverException(e) == FALSE

\* `except Exception`: SystemExit derives from BaseException only.
IsException(e) == e \in {"AssertionError", "Exception", "AttributeError", "RecursionError"}

(***************************************************************************)
(* The TestCase instances a client program makes: the three of TestStub,   *)
(* or two of the other fixtures.                                           *)
(***************************************************************************)
Programs ==
    { {Case("TestStub", "test_success"), Case("TestStub", "test_failure"),
       Case("TestStub", "test_error")},
      {Case("TestSpy", "test_method"), Case("UserFixture", "test_exit")},
      {Case("TestStub", "test_missing"), Case("TestStub", "test_error")},
      {Case("RaisingSetUp", "test_success"), Case("RaisingTearDown", "test_failure")},
      {Case("UserFixture", "test_unequal"), Case("TestStub", "test_failure")} }

VARIABLES
    fixtures,   \* the TestCase instances of the client program
    tests,      \* TestSuite.tests of every suite
    result,     \* TestRunner.result: run_count, failures, errors
    spy,        \* the TestSpy instance's fields
    stack,      \* call stack, innermost frame last
    exc,        \* the exception propagating, if any
    output,     \* what print() has written
    returned,   \* what the client's last call returned
    raised,     \* the exception that call let escape to the client
    calls,      \* calls made by the client so far
    root,       \* the runnable that call ran (NoTest for add_test)
    base,       \* result as it was when that call started
    called,     \* the runnables whose run that call has called, in order
    runs,       \* its leaf executions: the TestCase and the steps it took
    loader      \* the client's TestLoader call: its argument and what it returned

vars == <<fixtures, tests, result, spy, stack, exc, output, returned, raised,
          calls, root, base, called, runs, loader>>

NoExc == [type |-> "none", origin |-> "none"]

Exc(t, o) == [type |-> t, origin |-> o]

(***************************************************************************)
(* TestResult                                                              *)
(***************************************************************************)
NewResult == [run_count |-> 0, failures |-> <<>>, errors |-> <<>>]

\* test_started that forgets to count.
test_started_lost(r) == r

test_started(r) == [r EXCEPT !.run_count = @ + 1]

\* add_failure that puts the identifier at the front.
add_failure_front(r, t) == [r EXCEPT !.failures = <<t>> \o @]

add_failure(r, t) == [r EXCEPT !.failures = Append(@, t)]

\* add_error that records the identifier twice.
add_error_twice(r, t) == [r EXCEPT !.errors = Append(Append(@, t), t)]

add_error(r, t) == [r EXCEPT !.errors = Append(@, t)]

DigitChar == <<"0", "1", "2", "3", "4", "5", "6", "7", "8", "9">>

\* str() of a natural number, as its characters.
RECURSIVE Str(_)
Str(n) == IF n < 10 THEN <<DigitChar[n + 1]>>
          ELSE Str(n \div 10) \o <<DigitChar[(n % 10) + 1]>>

RUN_MSG == <<"r", "u", "n">>

FAILURE_MSG == <<"f", "a", "i", "l", "e", "d">>

ERROR_MSG == <<"e", "r", "r", "o", "r">>

\* summary with the failure and error counts exchanged.
summary_swapped(r) ==
    Str(r.run_count) \o <<" ">> \o RUN_MSG \o <<",", " ">>
    \o Str(Len(r.errors)) \o <<" ">> \o FAILURE_MSG \o <<",", " ">>
    \o Str(Len(r.failures)) \o <<" ">> \o ERROR_MSG

summary(r) ==
    Str(r.run_count) \o <<" ">> \o RUN_MSG \o <<",", " ">>
    \o Str(Len(r.failures)) \o <<" ">> \o FAILURE_MSG \o <<",", " ">>
    \o Str(Len(r.errors)) \o <<" ">> \o ERROR_MSG

(***************************************************************************)
(* TestSpy                                                                 *)
(***************************************************************************)
NewSpy == [was_run |-> FALSE, was_set_up |-> FALSE, was_tear_down |-> FALSE,
           log |-> <<>>]

SpySetUp(s) == [s EXCEPT !.was_set_up = TRUE, !.log = Append(@, "set_up ")]

SpyTestMethod(s) == [s EXCEPT !.was_run = TRUE, !.log = Append(@, "test_method ")]

SpyTearDown(s) == [s EXCEPT !.was_tear_down = TRUE, !.log = Append(@, "tear_down")]

(***************************************************************************)
(* Call stack                                                              *)
(***************************************************************************)
\* A TestSuite.run whose loop starts at the second child.
FrameSkipsFirst(t) ==
    [kind |-> t.kind, test |-> t,
     pc |-> IF t.kind = "case" THEN "test_started" ELSE "loop",
     idx |-> 2, pending |-> "none"]

\* The frame of t.run(result): a TestCase starts at line 6, a TestSuite at
\* the head of its loop.
Frame(t) ==
    [kind |-> t.kind, test |-> t,
     pc |-> IF t.kind = "case" THEN "test_started" ELSE "loop",
     idx |-> 1, pending |-> "none"]

RunnerFrame(t) ==
    [kind |-> "runner", test |-> t, pc |-> "print", idx |-> 1, pending |-> "none"]

Top == stack[Len(stack)]

Pop == SubSeq(stack, 1, Len(stack) - 1)

SetTop(f) == [stack EXCEPT ![Len(stack)] = f]

Idle == stack = <<>>

\* run with the test method left out of the sequence.
StepAfterSkipsMethod(pc) ==
    CASE pc = "test_started" -> "set_up"
      [] pc = "set_up" -> "tear_down"
      [] pc = "test_method" -> "tear_down"
      [] pc = "except" -> "tear_down"
      [] pc = "tear_down" -> "return"

\* run that returns from the except clauses, without tear_down.
StepAfterExceptReturns(pc) ==
    CASE pc = "test_started" -> "set_up"
      [] pc = "set_up" -> "test_method"
      [] pc = "test_method" -> "tear_down"
      [] pc = "except" -> "return"
      [] pc = "tear_down" -> "return"

\* TestCase.run's statements in order: what follows each when it completes
\* (the except clauses are entered only when the try block raises).
StepAfter(pc) ==
    CASE pc = "test_started" -> "set_up"
      [] pc = "set_up" -> "test_method"
      [] pc = "test_method" -> "tear_down"
      [] pc = "except" -> "tear_down"
      [] pc = "tear_down" -> "return"

\* The stack once the top frame's current statement has completed.
Advance ==
    IF StepAfter(Top.pc) = "return" THEN Pop
    ELSE SetTop([Top EXCEPT !.pc = StepAfter(Top.pc), !.pending = "none"])

InCase(p) == ~Idle /\ exc = NoExc /\ Top.kind = "case" /\ Top.pc = p

Runnables == fixtures \cup {SuiteRef(s) : s \in Suites}

\* The client has called no TestLoader method.
NoLoader == [pc |-> "none", cls |-> "none", names |-> <<>>, suite |-> <<>>]

Init ==
    /\ fixtures \in Programs
    /\ tests = [s \in Suites |-> <<>>]
    /\ result = NewResult
    /\ spy = NewSpy
    /\ stack = <<>>
    /\ exc = NoExc
    /\ output = <<>>
    /\ returned = "none"
    /\ raised = NoExc
    /\ calls = 0
    /\ root = NoTest
    /\ base = NewResult
    /\ called = <<>>
    /\ runs = <<>>
    /\ loader = NoLoader

(***************************************************************************)
(* Calls of the client program                                             *)
(***************************************************************************)
\* add_test that inserts at the front.
add_test_front(ts, t) == <<t>> \o ts

\* self.tests.append(test)
add_test(ts, t) == Append(ts, t)

\* TestSuite.add_test
AddTest(s, t) ==
    /\ Idle
    /\ calls < MaxCalls
    /\ tests' = [tests EXCEPT ![s] = add_test(@, t)]
    /\ calls' = calls + 1
    /\ returned' = "none"
    /\ raised' = NoExc
    /\ root' = NoTest
    /\ base' = result
    /\ called' = <<>>
    /\ runs' = <<>>
    /\ UNCHANGED <<loader, fixtures, result, spy, stack, exc, output>>

\* The leaf executions once t.run(result) is called: one more if t is a
\* TestCase.
Enter(rs, t) ==
    IF t.kind = "case" THEN Append(rs, [test |-> t, steps |-> <<>>]) ELSE rs

\* The leaf executions once the executing TestCase has taken step s.
Log(s) == [runs EXCEPT ![Len(runs)].steps = Append(@, s)]

\* A runner that makes a new TestResult for every run.
FreshResult(r) == NewResult

\* self.result of the TestRunner: the aggregator made once by __init__,
\* used as it is by every run.
RunnerResult(r) == r

\* TestRunner.run(t), up to its call of t.run(self.result)
RunnerRun(t) ==
    /\ Idle
    /\ calls < MaxCalls
    /\ calls' = calls + 1
    /\ stack' = <<RunnerFrame(t), Frame(t)>>
    /\ root' = t
    /\ base' = result
    /\ called' = <<t>>
    /\ runs' = Enter(<<>>, t)
    /\ returned' = "none"
    /\ raised' = NoExc
    /\ result' = RunnerResult(result)
    /\ UNCHANGED <<loader, fixtures, tests, spy, exc, output>>

(***************************************************************************)
(* TestCase.run                                                            *)
(***************************************************************************)
\* line 6: result.test_started()
TestStarted ==
    /\ InCase("test_started")
    /\ result' = test_started(result)
    /\ stack' = Advance
    /\ runs' = Log("test_started")
    /\ UNCHANGED <<loader, fixtures, tests, spy, exc, output, returned, raised, calls,
                   root, base, called>>

\* line 7: self.set_up(), outside the try: what it raises leaves run
SetUp ==
    /\ InCase("set_up")
    /\ runs' = Log("set_up")
    /\ spy' = IF Top.test.cls = "TestSpy" THEN SpySetUp(spy) ELSE spy
    /\ IF SetUpOutcome(Top.test.cls) = "return"
       THEN /\ stack' = Advance
            /\ exc' = exc
       ELSE /\ stack' = Pop
            /\ exc' = Exc(SetUpOutcome(Top.test.cls), "set_up")
    /\ UNCHANGED <<loader, fixtures, tests, result, output, returned, raised, calls,
                   root, base, called>>

\* lines 9-10: getattr and the call of the test method, inside the try
TestMethod ==
    /\ InCase("test_method")
    /\ LET o == MethodOutcome(Top.test.cls, Top.test.name) IN
       /\ runs' = Log(IF o = "AttributeError" THEN "getattr" ELSE "test_method")
       /\ spy' = IF Top.test.cls = "TestSpy" /\ o = "return"
                 THEN SpyTestMethod(spy) ELSE spy
       /\ stack' = IF o = "return" THEN Advance
                 ELSE SetTop([Top EXCEPT !.pc = "except", !.pending = o])
    /\ UNCHANGED <<loader, fixtures, tests, result, exc, output, returned, raised,
                   calls, root, base, called>>

\* lines 11-14: the except clauses
Except ==
    /\ InCase("except")
    /\ LET e == Top.pending
           n == Top.test.name IN
       IF IsAssertionError(e)
       THEN /\ result' = add_failure(result, n)
            /\ runs' = Log("add_failure")
            /\ stack' = Advance
            /\ exc' = exc
       ELSE IF IsException(e)
       THEN /\ result' = add_error(result, n)
            /\ runs' = Log("add_error")
            /\ stack' = Advance
            /\ exc' = exc
       ELSE /\ result' = result
            /\ runs' = runs
            /\ stack' = Pop
            /\ exc' = Exc(e, "test_method")
    /\ UNCHANGED <<loader, fixtures, tests, spy, output, returned, raised, calls, root,
                   base, called>>

\* line 15: self.tear_down(), outside the try, then run returns
TearDown ==
    /\ InCase("tear_down")
    /\ runs' = Log("tear_down")
    /\ spy' = IF Top.test.cls = "TestSpy" THEN SpyTearDown(spy) ELSE spy
    /\ stack' = IF TearDownOutcome(Top.test.cls) = "return" THEN Advance ELSE Pop
    /\ exc' = IF TearDownOutcome(Top.test.cls) = "return" THEN exc
              ELSE Exc(TearDownOutcome(Top.test.cls), "tear_down")
    /\ UNCHANGED <<loader, fixtures, tests, result, output, returned, raised, calls,
                   root, base, called>>

(***************************************************************************)
(* TestSuite.run                                                           *)
(***************************************************************************)
\* lines 75-76: the next child's run is called, or the loop is over and
\* run returns.  A call that would exceed the interpreter's stack raises
\* RecursionError at line 76.
SuiteStep ==
    /\ ~Idle /\ exc = NoExc /\ Top.kind = "suite"
    /\ LET children == tests[Top.test.name] IN
       IF Top.idx > Len(children)
       THEN /\ stack' = Pop
            /\ exc' = exc
            /\ UNCHANGED <<called, runs>>
       ELSE IF Len(stack) >= MaxDepth
       THEN /\ stack' = stack
            /\ exc' = Exc("RecursionError", "run")
            /\ UNCHANGED <<called, runs>>
       ELSE /\ stack' = Append(SetTop([Top EXCEPT !.idx = @ + 1]),
                               Frame(children[Top.idx]))
            /\ exc' = exc
            /\ called' = Append(called, children[Top.idx])
            /\ runs' = Enter(runs, children[Top.idx])
    /\ UNCHANGED <<loader, fixtures, tests, result, spy, output, returned, raised,
                   calls, root, base>>

\* An exception passes through TestSuite.run and TestRunner.run, which have
\* no handler: the frame is left without running the rest of it.  Leaving
\* TestRunner.run, it reaches the client.
Unwind ==
    /\ ~Idle /\ exc # NoExc
    /\ stack' = Pop
    /\ IF Len(stack) = 1
       THEN raised' = exc /\ exc' = NoExc
       ELSE raised' = raised /\ exc' = exc
    /\ UNCHANGED <<loader, fixtures, tests, result, spy, output, returned, calls, root,
                   base, called, runs>>

(***************************************************************************)
(* TestRunner.run, after test.run(self.result) has returned                *)
(***************************************************************************)
\* lines 100-101: print(self.result.summary()); return self.result
RunnerReturn ==
    /\ ~Idle /\ exc = NoExc /\ Top.kind = "runner"
    /\ output' = Append(output, summary(result))
    /\ returned' = "self.result"
    /\ stack' = Pop
    /\ UNCHANGED <<loader, fixtures, tests, result, spy, exc, raised, calls, root, base,
                   called, runs>>

Next ==
    \/ \E s \in Suites, t \in Runnables : AddTest(s, t)
    \/ \E t \in Runnables : RunnerRun(t)
    \/ TestStarted
    \/ SetUp
    \/ TestMethod
    \/ Except
    \/ TearDown
    \/ SuiteStep
    \/ Unwind
    \/ RunnerReturn

Spec == Init /\ [][Next]_vars

\* A statement of a run under way.
RunStep ==
    \/ TestStarted
    \/ SetUp
    \/ TestMethod
    \/ Except
    \/ TearDown
    \/ SuiteStep
    \/ Unwind
    \/ RunnerReturn

\* Execution is synchronous and single-threaded: a call under way executes
\* its next statement.
\* The client programs of two TestCase instances: between them, test
\* methods of every outcome and hooks that raise.
FairInit == Init /\ Cardinality(fixtures) = 2

FairSpec == FairInit /\ [][Next]_vars /\ WF_vars(RunStep)

(***************************************************************************)
(* TestLoader.  A class is its name, its base class and the attributes its *)
(* body defines; an attribute is a name, spelled out in characters, and    *)
(* what it is bound to: a function ("method") or another value ("data").   *)
(***************************************************************************)
MaxMembers == 3     \* attributes defined in the body of a client's class

Method(n) == [name |-> n, kind |-> "method"]

Data(n) == [name |-> n, kind |-> "data"]

\* The characters of the names, in code point order: str compares by it.
CodePoints ==
    <<"1", "T", "_", "a", "b", "c", "d", "e", "f", "i", "l", "m", "n", "o",
      "p", "q", "r", "s", "t", "u", "w", "y">>

ord(c) == CHOOSE k \in 1..Len(CodePoints) : CodePoints[k] = c

\* a < b for str
StrLess(a, b) ==
    \E k \in 1..(Len(a) + 1) :
        /\ k <= Len(b)
        /\ \A j \in 1..(k - 1) : a[j] = b[j]
        /\ k = Len(a) + 1 \/ ord(a[k]) < ord(b[k])

\* What object gives every class (of its attributes, two).
ObjectMembers ==
    { Method(<<"_", "_", "i", "n", "i", "t", "_", "_">>),
      Method(<<"_", "_", "e", "q", "_", "_">>) }

\* class TestCase, lines 1-41
TestCaseMembers ==
    { Method(<<"_", "_", "i", "n", "i", "t", "_", "_">>),
      Method(<<"r", "u", "n">>),
      Method(<<"s", "e", "t", "_", "u", "p">>),
      Method(<<"t", "e", "a", "r", "_", "d", "o", "w", "n">>),
      Method(<<"a", "s", "s", "e", "r", "t", "_", "e", "q", "u", "a", "l">>),
      Method(<<"a", "s", "s", "e", "r", "t", "_", "t", "r", "u", "e">>),
      Method(<<"a", "s", "s", "e", "r", "t", "_", "f", "a", "l", "s", "e">>),
      Method(<<"a", "s", "s", "e", "r", "t", "_", "i", "n">>) }

test_success == <<"t", "e", "s", "t", "_", "s", "u", "c", "c", "e", "s", "s">>

test_failure == <<"t", "e", "s", "t", "_", "f", "a", "i", "l", "u", "r", "e">>

test_error == <<"t", "e", "s", "t", "_", "e", "r", "r", "o", "r">>

\* class TestStub, lines 103-111
TestStubMembers == {Method(test_success), Method(test_failure), Method(test_error)}

\* What the body of a client's class may define: the attributes of TestStub,
\* TestSpy (113-131) and Test (258-260), and names around the prefix.
MemberPool ==
    TestStubMembers \cup
    { Method(<<"t", "e", "s", "t", "_", "m", "e", "t", "h", "o", "d">>),
      Method(<<"s", "e", "t", "_", "u", "p">>),
      Method(<<"f", "o", "o", "b", "a", "r">>),
      Method(<<"t", "e", "s", "t">>),
      Method(<<"t", "e", "s">>),
      Method(<<"t", "e", "s", "t", "1">>),
      Method(<<"T", "e", "s", "t", "_", "a">>),
      Method(<<"_", "t", "e", "s", "t">>),
      Data(<<"t", "e", "s", "t", "_", "d", "a", "t", "a">>) }

Bases == {"TestCase", "TestStub"}

\* The classes a client hands to the loader: class Fixture(base) with at
\* most MaxMembers attributes in its body.
Classes ==
    { [name |-> "Fixture", base |-> b, own |-> o] :
          b \in Bases,
          o \in {m \in SUBSET MemberPool : Cardinality(m) <= MaxMembers} }

\* The attributes of a base class, inherited ones included.
BaseMembers(b) ==
    IF b = "TestStub"
    THEN TestStubMembers \cup TestCaseMembers \cup ObjectMembers
    ELSE TestCaseMembers \cup ObjectMembers

\* The attributes of a class: its own, and the inherited ones it does not
\* redefine.
Members(cls) ==
    cls.own \cup {m \in BaseMembers(cls.base) :
                     \A o \in cls.own : o.name # m.name}

\* sorted(S) for a set of str
RECURSIVE sorted(_)
sorted(S) ==
    IF S = {} THEN <<>>
    ELSE LET least == CHOOSE x \in S : \A y \in S \ {x} : StrLess(x, y)
         IN <<least>> \o sorted(S \ {least})

\* dir(cls): the names of the attributes of cls, sorted
dir(cls) == sorted({m.name : m \in Members(cls)})

TEST_METHOD_PREFIX == <<"t", "e", "s", "t">>

\* s.startswith(p)
startswith(s, p) == Len(p) <= Len(s) /\ SubSeq(s, 1, Len(p)) = p

\* get_test_case_names that lists the names in the reverse order.
RECURSIVE reversed(_)
reversed(s) == IF s = <<>> THEN <<>> ELSE Append(reversed(Tail(s)), Head(s))

get_test_case_names_reversed(cls) ==
    reversed(SelectSeq(dir(cls), LAMBDA method : startswith(method, TEST_METHOD_PREFIX)))

\* TestLoader.get_test_case_names, lines 81-85
get_test_case_names(cls) ==
    SelectSeq(dir(cls), LAMBDA method : startswith(method, TEST_METHOD_PREFIX))

\* TestLoader.make_suite, lines 88-92: the loop over the names, from the
\* suite built so far
RECURSIVE make_suite_loop(_, _, _)
make_suite_loop(cls, names, suite) ==
    IF names = <<>> THEN suite
    ELSE make_suite_loop(cls, Tail(names),
                         add_test(suite, Case(cls.name, Head(names))))

make_suite(cls) == make_suite_loop(cls, get_test_case_names(cls), <<>>)

LoaderInit ==
    /\ fixtures = {}
    /\ tests = [s \in Suites |-> <<>>]
    /\ result = NewResult
    /\ spy = NewSpy
    /\ stack = <<>>
    /\ exc = NoExc
    /\ output = <<>>
    /\ returned = "none"
    /\ raised = NoExc
    /\ calls = 0
    /\ root = NoTest
    /\ base = NewResult
    /\ called = <<>>
    /\ runs = <<>>
    /\ loader \in {[NoLoader EXCEPT !.cls = c] : c \in Classes}

\* The client calls loader.get_test_case_names(cls).
GetTestCaseNames ==
    /\ loader.pc = "none"
    /\ loader' = [loader EXCEPT !.pc = "names",
                                !.names = get_test_case_names(loader.cls)]
    /\ UNCHANGED <<fixtures, tests, result, spy, stack, exc, output, returned,
                   raised, calls, root, base, called, runs>>

\* The client calls loader.make_suite(cls).
MakeSuite ==
    /\ loader.pc \in {"none", "names"}
    /\ loader' = [loader EXCEPT !.pc = "suite",
                                !.suite = make_suite(loader.cls)]
    /\ UNCHANGED <<fixtures, tests, result, spy, stack, exc, output, returned,
                   raised, calls, root, base, called, runs>>

LoaderNext ==
    \/ GetTestCaseNames
    \/ MakeSuite

LoaderSpec == LoaderInit /\ [][LoaderNext]_vars

(***************************************************************************)
(* What the properties below read off the state.                           *)
(***************************************************************************)
\* The leaf executions of the call so far: the TestCases whose run was
\* called, in order.
LeafRuns == [i \in 1..Len(runs) |-> runs[i].test]

Steps(i) == runs[i].steps

Occurs(s, ev) == Cardinality({k \in 1..Len(s) : s[k] = ev})

IsPrefix(s, u) == Len(s) <= Len(u) /\ SubSeq(u, 1, Len(s)) = s

\* How often the call's leaf executions took step ev.
RECURSIVE CountIn(_, _)
CountIn(rs, ev) ==
    IF rs = <<>> THEN 0 ELSE Occurs(Head(rs).steps, ev) + CountIn(Tail(rs), ev)

Count(ev) == CountIn(runs, ev)

\* The identifiers the call has passed to add_failure / add_error, in order.
RECURSIVE RecordedIn(_, _)
RecordedIn(rs, ev) ==
    IF rs = <<>> THEN <<>>
    ELSE [k \in 1..Occurs(Head(rs).steps, ev) |-> Head(rs).test.name]
         \o RecordedIn(Tail(rs), ev)

Recorded(ev) == RecordedIn(runs, ev)

\* Leaf execution i is the one executing now.
Executing(i) == i = Len(runs) /\ ~Idle /\ Top.kind = "case"

\* Leaf execution i is over: its frame has been left.
Finished(i) == ~Executing(i)

\* The number of leaves of a runnable: of a suite, the sum over its
\* children (suites nested deeper than the call stack allows count 0).
RECURSIVE LeafCount(_, _)
RECURSIVE LeafCountSeq(_, _)
LeafCount(t, n) ==
    IF t.kind = "case" THEN 1
    ELSE IF n >= MaxDepth THEN 0
    ELSE LeafCountSeq(tests[t.name], n + 1)

LeafCountSeq(ts, n) ==
    IF ts = <<>> THEN 0 ELSE LeafCount(Head(ts), n) + LeafCountSeq(Tail(ts), n)

\* The last TestRunner.run is over / returned normally.
Over == Idle /\ root # NoTest

Completed == Over /\ raised = NoExc

HookRaised == raised.origin \in {"set_up", "tear_down"}

C2_RecordedAtMostRun ==
    /\ Len(result.failures) + Len(result.errors) <= result.run_count
    /\ result.run_count = base.run_count + Count("test_started")
    /\ Len(result.failures) = Len(base.failures) + Count("add_failure")
    /\ Len(result.errors) = Len(base.errors) + Count("add_error")
    /\ \A i \in 1..Len(runs) :
           LET s == Steps(i) IN
           /\ Occurs(s, "test_started") <= 1
           /\ Finished(i) => Len(s) >= 1
           /\ Len(s) >= 1 => s[1] = "test_started"
           /\ Occurs(s, "add_failure") + Occurs(s, "add_error") <= 1

\* A run is under way after a set_up raised in it, with a failure recorded.
C2_Witness ==
    /\ exc.origin = "set_up"
    /\ ~Idle
    /\ Len(result.failures) = 1
    /\ result.run_count >= 2

\* The try block of leaf execution i has been left.
Tried(i) ==
    /\ Occurs(Steps(i), "test_method") + Occurs(Steps(i), "getattr") = 1
    /\ ~(Executing(i) /\ Top.pc \in {"test_method", "except"})

Outcome(i) == MethodOutcome(runs[i].test.cls, runs[i].test.name)

Stub(n) == Case("TestStub", n)

\* What the call has recorded is what result holds on top of base.
RecordedInResult ==
    /\ result.failures = base.failures \o Recorded("add_failure")
    /\ result.errors = base.errors \o Recorded("add_error")

\* One succeeding, one failing and one erroring test run on a fresh result
\* give 3 run, 1 failed, 1 error.
MixedRun ==
    (Completed /\ base = NewResult
     /\ LeafRuns = <<Stub("test_success"), Stub("test_failure"), Stub("test_error")>>)
    => result = [run_count |-> 3, failures |-> <<"test_failure">>,
                 errors |-> <<"test_error">>]

Lifecycle == <<"test_started", "set_up", "test_method", "tear_down">>

SpyLine == <<"set_up ", "test_method ", "tear_down">>

\* Neither the hooks nor the test method of c raise.
Quiet(c) ==
    /\ SetUpOutcome(c.cls) = "return"
    /\ MethodOutcome(c.cls, c.name) = "return"
    /\ TearDownOutcome(c.cls) = "return"

(***************************************************************************)
(* C4: a TestCase.run whose hooks and test method do not raise invokes     *)
(* test_started, set_up, the test method and tear_down once each, in that  *)
(* order; the TestSpy's log gets "set_up test_method tear_down" per run.   *)
(***************************************************************************)
C4_LifecycleOrder ==
    /\ \A i \in 1..Len(runs) : Quiet(runs[i].test) =>
           /\ IsPrefix(Steps(i), Lifecycle)
           /\ Finished(i) => Steps(i) = Lifecycle
    /\ \A k \in 1..Len(spy.log) : spy.log[k] = SpyLine[((k - 1) % 3) + 1]
    /\ Idle => Len(spy.log) % 3 = 0
    /\ (Completed /\ base = NewResult
        /\ \A k \in 1..Len(runs) : runs[k].test.cls = "TestSpy")
       => Len(spy.log) = 3 * Len(runs)

\* The spy has been run once, alone.
C4_Witness ==
    /\ Completed
    /\ root = Case("TestSpy", "test_method")
    /\ Steps(1) = Lifecycle
    /\ spy.log = SpyLine
    /\ spy.was_set_up /\ spy.was_run /\ spy.was_tear_down

\* set_up of leaf execution i has completed.
SetUpDone(i) ==
    Occurs(Steps(i), "set_up") = 1 /\ SetUpOutcome(runs[i].test.cls) = "return"

\* tear_down is invoked at most once, as the last step, after the test
\* method and after what the except clauses recorded.
TearDownLast(s) ==
    /\ Occurs(s, "tear_down") <= 1
    /\ Occurs(s, "tear_down") = 1 =>
           /\ s[Len(s)] = "tear_down"
           /\ Occurs(s, "test_method") + Occurs(s, "getattr") = 1

RECURSIVE Flatten(_, _)
RECURSIVE FlattenSeq(_, _)
Flatten(t, n) ==
    IF t.kind = "case" THEN <<t>>
    ELSE IF n >= MaxDepth THEN <<>>
    ELSE FlattenSeq(tests[t.name], n + 1)

FlattenSeq(ts, n) ==
    IF ts = <<>> THEN <<>> ELSE Flatten(Head(ts), n) \o FlattenSeq(Tail(ts), n)

\* The exception e is a test method's failure or error.
FailureOrError(e) ==
    e.origin = "test_method" /\ e.type \in {"AssertionError", "Exception", "AttributeError"}

(***************************************************************************)
(* C6: a failure or error of one test never aborts its siblings: no        *)
(* failure or error propagates, every run that returns has executed every  *)
(* leaf of the suite and of its nested suites, and a run that skipped      *)
(* leaves was stopped by an exception that is no test's failure or error.  *)
(***************************************************************************)
C6_SiblingsRun ==
    /\ ~FailureOrError(exc) /\ ~FailureOrError(raised)
    /\ root # NoTest =>
           /\ IsPrefix(LeafRuns, Flatten(root, 2))
           /\ Completed => LeafRuns = Flatten(root, 2)
           /\ (Over /\ LeafRuns # Flatten(root, 2)) => raised # NoExc

\* A suite's failing and erroring children were followed by their sibling.
C6_Witness ==
    /\ Completed
    /\ root.kind = "suite"
    /\ LeafRuns = <<Stub("test_failure"), Stub("test_error"), Stub("test_success")>>
    /\ Len(result.failures) = 1 /\ Len(result.errors) = 1

(***************************************************************************)
(* C7 as stated: no exception raised during a test case's execution,       *)
(* other than one raised by tear_down, propagates out of TestCase.run,     *)
(* TestSuite.run or TestRunner.run.  (RecursionError is raised by          *)
(* TestSuite.run's own call, not by a test case.)                          *)
(***************************************************************************)
C7_OnlyTearDownEscapes ==
    /\ exc # NoExc => exc.origin \in {"tear_down", "run"}
    /\ raised # NoExc => raised.origin \in {"tear_down", "run"}

\* The runs a run of t calls, suites included, in order, when nothing
\* stops it; n is the depth of t's frame.
RECURSIVE PreOrder(_, _)
RECURSIVE PreOrderSeq(_, _)
PreOrder(t, n) ==
    IF t.kind = "case" \/ n >= MaxDepth THEN <<t>>
    ELSE <<t>> \o PreOrderSeq(tests[t.name], n + 1)

PreOrderSeq(ts, n) ==
    IF ts = <<>> THEN <<>> ELSE PreOrder(Head(ts), n) \o PreOrderSeq(Tail(ts), n)

Names(cs) == [i \in 1..Len(cs) |-> cs[i].name]

\* Of the leaves cs, those whose test method fails / errors once set_up
\* has returned.
Failing(cs) ==
    SelectSeq(cs, LAMBDA c : /\ SetUpOutcome(c.cls) = "return"
                             /\ MethodOutcome(c.cls, c.name) = "AssertionError")

Erroring(cs) ==
    SelectSeq(cs, LAMBDA c : /\ SetUpOutcome(c.cls) = "return"
                             /\ MethodOutcome(c.cls, c.name)
                                    \in {"Exception", "AttributeError"})

(***************************************************************************)
(* C8: a suite's children run in insertion order, depth-first through      *)
(* nested suites, each child completing before the next starts, all on the *)
(* one result; failures and errors hold the identifiers in the order in    *)
(* which their leaves were executed.                                       *)
(***************************************************************************)
C8_InsertionOrder ==
    /\ root # NoTest => IsPrefix(called, PreOrder(root, 2))
    /\ \A k \in 1..(Len(stack) - 1) : stack[k].kind # "case"
    /\ (~Idle /\ Top.kind = "case") =>
           Len(runs) >= 1 /\ runs[Len(runs)].test = Top.test
    /\ \A i \in 1..(Len(runs) - 1) :
           Len(Steps(i)) >= 1 /\ Steps(i)[Len(Steps(i))] = "tear_down"
    /\ RecordedInResult
    /\ IsPrefix(Recorded("add_failure"), Names(Failing(LeafRuns)))
    /\ IsPrefix(Recorded("add_error"), Names(Erroring(LeafRuns)))
    /\ Over => /\ result.failures = base.failures \o Names(Failing(LeafRuns))
               /\ result.errors = base.errors \o Names(Erroring(LeafRuns))

\* A leaf and then a nested suite's leaf failed, and are recorded in that order.
C8_Witness ==
    /\ Completed
    /\ root.kind = "suite"
    /\ Len(tests[root.name]) = 2
    /\ tests[root.name][1].kind = "case"
    /\ tests[root.name][2].kind = "suite"
    /\ result.failures = <<"test_unequal", "test_failure">>

\* base with what a run of t adds to a result when nothing stops it.
Accumulate(b, t) ==
    [run_count |-> b.run_count + Len(Flatten(t, 2)),
     failures |-> b.failures \o Names(Failing(Flatten(t, 2))),
     errors |-> b.errors \o Names(Erroring(Flatten(t, 2)))]

C9_State ==
    /\ base.run_count <= result.run_count
    /\ IsPrefix(base.failures, result.failures)
    /\ IsPrefix(base.errors, result.errors)
    /\ Over => result.run_count = base.run_count + Len(runs)
    /\ Completed => result = Accumulate(base, root) /\ returned = "self.result"

C9_Step ==
    /\ result'.run_count >= result.run_count
    /\ IsPrefix(result.failures, result'.failures)
    /\ IsPrefix(result.errors, result'.errors)
    /\ (Idle /\ stack' # <<>>) => result' = result

(***************************************************************************)
(* C9: every TestRunner.run runs its runnable against the runner's one     *)
(* TestResult and returns it, never resetting it: what a call leaves is    *)
(* what it found plus the outcome of its own run, and run_count never      *)
(* decreases.                                                              *)
(***************************************************************************)
C9_RunnerAccumulates == []C9_State /\ [][C9_Step]_vars

\* A second run has added to what the first left.
C9_Witness ==
    /\ Completed
    /\ Len(output) = 2
    /\ base.run_count >= 1 /\ Len(base.failures) >= 1
    /\ result.run_count > base.run_count
    /\ Len(result.errors) > Len(base.errors)

IsDigit(c) == \E d \in 1..10 : DigitChar[d] = c

DigitVal(c) == (CHOOSE d \in 1..10 : DigitChar[d] = c) - 1

\* The length of the longest prefix of s made of digits.
DigitsLen(s) ==
    CHOOSE k \in 0..Len(s) :
        /\ \A j \in 1..k : IsDigit(s[j])
        /\ k < Len(s) => ~IsDigit(s[k + 1])

RECURSIVE ToInt(_)
ToInt(ds) == IF ds = <<>> THEN 0
             ELSE ToInt(SubSeq(ds, 1, Len(ds) - 1)) * 10 + DigitVal(ds[Len(ds)])

Drop(s, k) == SubSeq(s, k + 1, Len(s))

\* Reads "<number> <label>" at the head of s.
Field(s, label) ==
    LET k == DigitsLen(s) IN
    [ok |-> k > 0 /\ IsPrefix(<<" ">> \o label, Drop(s, k)),
     val |-> ToInt(SubSeq(s, 1, k)),
     rest |-> Drop(s, k + 1 + Len(label))]

\* Reads "<N> run, <F> failed, <E> error".
ParseSummary(s) ==
    LET f1 == Field(s, <<"r", "u", "n">>)
        f2 == Field(Drop(f1.rest, 2), <<"f", "a", "i", "l", "e", "d">>)
        f3 == Field(Drop(f2.rest, 2), <<"e", "r", "r", "o", "r">>)
    IN [ok |-> /\ f1.ok /\ f2.ok /\ f3.ok
               /\ IsPrefix(<<",", " ">>, f1.rest)
               /\ IsPrefix(<<",", " ">>, f2.rest)
               /\ f3.rest = <<>>,
        run |-> f1.val, failed |-> f2.val, error |-> f3.val]

C10_State ==
    /\ \A k \in 1..Len(output) : ParseSummary(output[k]).ok
    /\ Completed =>
           /\ Len(output) >= 1
           /\ ParseSummary(output[Len(output)]) =
                  [ok |-> TRUE, run |-> result.run_count,
                   failed |-> Len(result.failures), error |-> Len(result.errors)]
           /\ ParseSummary(output[Len(output)]).run =
                  base.run_count + Len(Flatten(root, 2))

C10_Step ==
    output' # output =>
        /\ Len(stack) = 1 /\ Top.kind = "runner" /\ exc = NoExc
        /\ stack' = <<>>
        /\ result' = result
        /\ Len(output') = Len(output) + 1

(***************************************************************************)
(* C10: summary() reads "<N> run, <F> failed, <E> error" with N, F, E the  *)
(* current run_count, len(failures), len(errors), and changes nothing in   *)
(* the aggregator; TestRunner.run prints it only once the runnable's run   *)
(* has returned, so it counts every leaf of that call.                     *)
(***************************************************************************)
C10_SummaryReports == []C10_State /\ [][C10_Step]_vars

\* "3 run, 1 failed, 1 error" has been printed for a suite of three.
C10_Witness ==
    /\ Completed
    /\ Len(runs) = 3
    /\ output[Len(output)] =
           <<"3", " ", "r", "u", "n", ",", " ", "1", " ", "f", "a", "i", "l",
             "e", "d", ",", " ", "1", " ", "e", "r", "r", "o", "r">>

\* The names in ns are in lexicographic order, none twice.
Ascending(ns) == \A i, j \in 1..Len(ns) : i < j => StrLess(ns[i], ns[j])

Range(s) == {s[i] : i \in 1..Len(s)}

\* The names of the attributes of cls of the kinds given that start with
\* the prefix "test".
PrefixedNames(cls, kinds) ==
    {m.name : m \in {x \in Members(cls) :
                        x.kind \in kinds /\ startswith(x.name, TEST_METHOD_PREFIX)}}

(***************************************************************************)
(* C11 as stated: get_test_case_names returns exactly the names of the     *)
(* methods of the fixture type, own and inherited, that start with "test", *)
(* each once, in lexicographic order, and nothing else; the empty sequence *)
(* when no name matches.                                                   *)
(***************************************************************************)
C11_ExactlyTestMethods ==
    loader.pc = "names" =>
        /\ Range(loader.names) = PrefixedNames(loader.cls, {"method"})
        /\ Ascending(loader.names)
        /\ PrefixedNames(loader.cls, {"method"}) = {} => loader.names = <<>>

\* What get_test_case_names does return: the prefixed names of all the
\* attributes, methods or not.
LoaderListsAttributes ==
    loader.pc = "names" =>
        /\ Range(loader.names) = PrefixedNames(loader.cls, {"method", "data"})
        /\ Ascending(loader.names)

(***************************************************************************)
(* C12: make_suite returns a new TestSuite whose children are leaf         *)
(* TestCases only, one per name get_test_case_names returns, bound to that *)
(* name and in the same order: as many children as discovered names, run   *)
(* in discovery (lexicographic) order.                                     *)
(***************************************************************************)
C12_SuiteOfDiscoveredNames ==
    loader.pc = "suite" =>
        LET ns == SelectSeq(dir(loader.cls),
                            LAMBDA n : startswith(n, TEST_METHOD_PREFIX))
            s == loader.suite
        IN /\ Len(s) = Len(ns)
           /\ \A i \in 1..Len(s) : s[i] = Case(loader.cls.name, ns[i])
           /\ loader.names # <<>> => Names(s) = loader.names
           /\ Ascending(Names(s))
           /\ FlattenSeq(s, 3) = s

\* The suite made of a class with TestStub's three test methods.
C12_Witness ==
    /\ loader.pc = "suite"
    /\ loader.cls.own = TestStubMembers
    /\ loader.names # <<>>
    /\ loader.suite = <<Case("Fixture", test_error), Case("Fixture", test_failure),
                        Case("Fixture", test_success)>>

\* The lifecycle steps among the steps s of a leaf execution.
LifecycleSteps(s) ==
    SelectSeq(s, LAMBDA e : e \in {"test_started", "set_up", "test_method",
                                   "getattr", "tear_down"})

(***************************************************************************)
(* C13 as stated: every call of TestCase.run attempts all four lifecycle   *)
(* steps in order - test_started, set_up, the bound test method,           *)
(* tear_down - whatever the outcome of the earlier steps, including when   *)
(* set_up raises.                                                          *)
(***************************************************************************)
C13_AllStepsAttempted ==
    \A i \in 1..Len(runs) : Finished(i) =>
        LET s == LifecycleSteps(Steps(i)) IN
        /\ Len(s) = 4
        /\ s[1] = "test_started"
        /\ s[2] = "set_up"
        /\ s[3] \in {"test_method", "getattr"}
        /\ s[4] = "tear_down"

\* Leaf execution i is of a TestStub bound to a name TestStub does not have.
MissingMethod(i) == runs[i].test = Case("TestStub", "test_missing")

(***************************************************************************)
(* C14: running a TestCase bound to a name the fixture does not have is an *)
(* error outcome: run_count is incremented, set_up runs, the name is       *)
(* appended to errors only, tear_down still runs and TestCase.run returns  *)
(* normally.                                                               *)
(***************************************************************************)
C14_MissingMethodIsError ==
    /\ RecordedInResult
    /\ result.run_count = base.run_count + Count("test_started")
    /\ \A i \in 1..Len(runs) : MissingMethod(i) =>
           /\ IsPrefix(Steps(i), <<"test_started", "set_up", "getattr",
                                   "add_error", "tear_down">>)
           /\ Finished(i) => Len(Steps(i)) = 5
           /\ i = Len(runs) =>
                  /\ exc.origin \notin {"set_up", "test_method", "tear_down"}
                  /\ raised.origin \notin {"set_up", "test_method", "tear_down"}

\* TestStub('test_missing') has been run alone on a fresh result.
C14_Witness ==
    /\ Completed /\ base = NewResult
    /\ root = Case("TestStub", "test_missing")
    /\ result = [run_count |-> 1, failures |-> <<>>,
                 errors |-> <<"test_missing">>]
    /\ returned = "self.result"

\* An exception raised by tear_down is propagating / has reached the client.
TearDownRaised == exc.origin = "tear_down" \/ raised.origin = "tear_down"

C15_State ==
    /\ RecordedInResult
    /\ \A i \in 1..Len(runs) :
           (runs[i].test.cls = "RaisingTearDown"
            /\ Occurs(Steps(i), "tear_down") = 1) =>
               /\ i = Len(runs)
               /\ Finished(i)
               /\ TearDownRaised
               /\ Steps(i) = <<"test_started", "set_up", "test_method",
                               "add_failure", "tear_down">>
               /\ result.run_count = base.run_count + Len(runs)
               /\ result.failures # <<>>
               /\ result.failures[Len(result.failures)] = runs[i].test.name
    /\ (Over /\ raised.origin = "tear_down") =>
           /\ returned = "none"
           /\ IsPrefix(LeafRuns, Flatten(root, 2))
           /\ runs[Len(runs)].test.cls = "RaisingTearDown"

C15_Step ==
    /\ exc'.origin = "tear_down" =>
           /\ result' = result
           /\ output' = output
           /\ exc = NoExc => Len(stack') = Len(stack) - 1
           /\ exc # NoExc => runs' = runs /\ called' = called
    /\ (exc.origin = "tear_down" /\ exc' = NoExc) =>
           /\ stack' = <<>>
           /\ raised' = exc
           /\ result' = result /\ output' = output /\ runs' = runs
    /\ output' # output => exc = NoExc /\ raised' = NoExc

(***************************************************************************)
(* C15: an exception raised by tear_down is not caught by TestCase.run: it *)
(* is recorded neither in failures nor in errors, what the test-method     *)
(* step recorded stays recorded, and the exception propagates, so that the *)
(* remaining siblings are not executed and TestRunner.run prints no        *)
(* summary.                                                                *)
(***************************************************************************)
C15_TearDownEscapes == []C15_State /\ [][C15_Step]_vars

\* A suite's first child raised from tear_down: its failure is recorded,
\* its sibling was not run, nothing was printed.
C15_Witness ==
    /\ Over /\ raised = Exc("Exception", "tear_down")
    /\ base = NewResult
    /\ root.kind = "suite"
    /\ Len(tests[root.name]) = 2
    /\ Len(LeafRuns) = 1
    /\ result = [run_count |-> 1, failures |-> <<"test_failure">>, errors |-> <<>>]
    /\ output = <<>>

C16_Step ==
    /\ \A s \in Suites :
           /\ IsPrefix(tests[s], tests'[s])
           /\ Len(tests'[s]) <= Len(tests[s]) + 1
    /\ tests' # tests =>
           /\ Idle /\ stack' = <<>>
           /\ result' = result
           /\ \E s \in Suites, t \in Runnables :
                  tests' = [tests EXCEPT ![s] = Append(tests[s], t)]
    /\ (~Idle \/ stack' # <<>>) => tests' = tests

(***************************************************************************)
(* C16: a TestSuite's child sequence is append-only: add_test(t) yields    *)
(* the old sequence with t at the end (duplicates kept, earlier children   *)
(* unchanged, length + 1), and TestSuite.run, TestRunner.run and the       *)
(* TestResult operations leave every suite's children unchanged.           *)
(***************************************************************************)
C16_AppendOnly == [][C16_Step]_vars

\* A child was added a second time to a suite after the suite had been run.
C16_Witness ==
    /\ Idle /\ root = NoTest
    /\ result.run_count = 1
    /\ \E s \in Suites :
           /\ Len(tests[s]) = 2
           /\ tests[s][1] = tests[s][2]
           /\ tests[s][1].kind = "case"

\* The suites among the children of the suites in S.
ChildSuites(S) ==
    {c.name : c \in {x \in UNION {Range(tests[s]) : s \in S} : x.kind = "suite"}}

\* The suites a suite in S contains, directly or transitively.
RECURSIVE Contained(_, _)
Contained(S, n) ==
    IF n = 0 THEN {}
    ELSE ChildSuites(S) \cup Contained(ChildSuites(S), n - 1)

Below(s) == Contained({s}, Cardinality(Suites))

\* The runnable t is, or contains, a suite that contains itself.
Cyclic(t) ==
    t.kind = "suite" /\ \E s \in {t.name} \cup Below(t.name) : s \in Below(s)

\* No set_up or tear_down of a leaf of t raises.
HooksReturn(t) ==
    \A c \in Range(Flatten(t, 2)) :
        SetUpOutcome(c.cls) = "return" /\ TearDownOutcome(c.cls) = "return"

\* No test method of a leaf of t leaves the interpreter (sys.exit()).
NoExit(t) ==
    \A c \in Range(Flatten(t, 2)) : MethodOutcome(c.cls, c.name) # "SystemExit"

\* Every leaf occurrence of the runnable was executed exactly once, and
\* the call returned.
EachLeafOnce ==
    /\ Completed
    /\ LeafRuns = Flatten(root, 2)
    /\ \A i \in 1..Len(runs) :
           /\ Occurs(Steps(i), "test_started") = 1
           /\ Occurs(Steps(i), "test_method") + Occurs(Steps(i), "getattr") = 1
    /\ returned = "self.result"

C17_State ==
    /\ (Over /\ ~Cyclic(root) /\ HooksReturn(root) /\ NoExit(root)) => EachLeafOnce
    /\ (Over /\ Cyclic(root)) => raised # NoExc /\ returned = "none"

\* One summary per call that returns, printed as it returns.
C17_Step ==
    /\ output' # output =>
           ~Idle /\ stack' = <<>> /\ Len(output') = Len(output) + 1
    /\ (~Idle /\ stack' = <<>> /\ raised' = NoExc) =>
           Len(output') = Len(output) + 1

Running == ~Idle

C17_CycleWitness ==
    /\ Over /\ Cyclic(root)
    /\ raised = Exc("RecursionError", "run")

====
